---- MODULE Spec2Model ----
(***************************************************************************)
(* State-machine model of MinIOStorageClient (src/src/minio-client.ts).    *)
(*                                                                         *)
(* The storage SDK (Minio.Client), the HTTP stack and the file system are  *)
(* the environment: every answer they give (a call resolving or throwing,  *)
(* an HTTP status, a listing) is an input chosen with \E.  The client's    *)
(* own fields, the temp files it creates and the position of the one call  *)
(* in progress are the state.  A call starts in pc = "idle" and its outcome *)
(* is read in pc = "done"; connect has a position of its own (connPc), so   *)
(* that it may run while another call is in progress.                      *)
(***************************************************************************)
EXTENDS Integers, Sequences, FiniteSets

\* ------------------------------------------------------------------ bounds
MaxItems   == 2      \* longest list handed to a batch operation
MaxFetches == 2      \* remote fetches (temp file names drawn) per behaviour
MaxBuckets == 2      \* buckets in a listing answered to getStorageStats
MaxObjects == 2      \* objects in one bucket's recursive listing

\* --------------------------------------------------------------- constants
Null == "null"

Configs == {"cfgA", "cfgB"}

\* Sources handed to uploadFile: two local paths and three URL-shaped strings.
LocalExisting == "/data/a.txt"
LocalMissing  == "/data/none.txt"

\* Local files that exist when the client is constructed.
LocalFiles == {LocalExisting}
Sources == {LocalExisting, LocalMissing, "https://host/f", "http://host/f", "ftp://host/f"}

HttpStatuses == {200, 404, 500}

Sizes == {1, 2}

NoError == [kind |-> "none", status |-> 0]

Err(kind) == [kind |-> kind, status |-> 0]

\* Error("下载失败: <statusCode> <statusMessage>")
DownloadFailed(status) == [kind |-> "DownloadFailed", status |-> status]

VARIABLES
    client,        \* this.client: Null or the config the Minio.Client was built from
    config,        \* this.config: Null or a config
    pc,            \* position of the public call in progress
    op,            \* name of the public call in progress / last finished
    result,        \* what the finished call reported: [ok, error, value]
    backendLog,    \* backend (SDK) calls made by the current public call
    disk,          \* paths of the files that exist on disk
    openPending,   \* temp file names whose createWriteStream open has not completed
    lingering,     \* requests rejected on a bad status whose socket is still alive
    nextTemp,      \* number of temp file names drawn so far
    dirs,          \* destination directories that exist
    tempFileName,  \* downloadFromUrlToTempFile's tempFileName (Null: no fetch started)
    tempFilePath,  \* uploadFile's tempFilePath
    putCount,      \* putObject invocations made by the current uploadFile call
    resolvedOk,    \* the current uploadFile call saw existsSync(actualFilePath) = true
    cleanupError,  \* the current uploadFile call logged a failed unlink (console.error)
    settled,       \* outcome of the latest uploadFile / downloadFile call of this public call
    answer,        \* the latest answer of the environment (SDK call or HTTP response)
    everConnected, \* some connect call has completed successfully
    connPc,        \* position of the connect call in progress
    connCfg,       \* the config whose probe is awaited (Null: none)
    connResult,    \* what the finished connect call reported
    batch,         \* the batch call's frame: [kind, files, idx, result, invoked, outcomes]
    listing        \* the listings the backend answered to getStorageStats

vars == <<client, config, pc, op, result, backendLog, disk, openPending, lingering,
          nextTemp, dirs, tempFileName, tempFilePath, putCount, resolvedOk, cleanupError,
          settled, answer, everConnected, connPc, connCfg, connResult, batch, listing>>

connVars  == <<client, config, everConnected, connPc, connCfg, connResult>>
fsVars    == <<disk, openPending, lingering, nextTemp, dirs>>
frameVars == <<tempFileName, tempFilePath, putCount, resolvedOk, cleanupError>>

NoValue == [kind |-> "void"]

Ok(v)     == [ok |-> TRUE,  error |-> NoError, value |-> v]
Fail(e)   == [ok |-> FALSE, error |-> e,       value |-> NoValue]
Pending   == [ok |-> FALSE, error |-> Err("pending"), value |-> NoValue]

NoBatch == [kind |-> "none", files |-> <<>>, idx |-> 0,
            result |-> [success |-> TRUE, successCount |-> 0, failureCount |-> 0, errors |-> <<>>],
            invoked |-> <<>>, outcomes |-> <<>>]

\* Answers of the environment: an SDK call resolving or throwing, an HTTP status.
NoAnswer == [kind |-> "none", ok |-> FALSE, status |-> 0]

SdkAnswer(ok) == [kind |-> "sdk", ok |-> ok, status |-> 0]

HttpAnswer(statusCode) == [kind |-> "http", ok |-> (statusCode = 200), status |-> statusCode]

NoListing == [buckets |-> <<>>, failAt |-> 0]

\* ------------------------------------------------------------- connection
\* Mutant: the check looks at the client only.
ensureConnected_ClientOnly == ~(client = Null)

\* private ensureConnected(): throws unless both fields are set.
ensureConnected == ~(client = Null \/ config = Null)

NotConnected == Err("NotConnected")

\* A public call that fails in ensureConnected: nothing else happens.
RejectNotConnected(name) ==
    /\ ~ensureConnected
    /\ op' = name
    /\ pc' = "done"
    /\ result' = Fail(NotConnected)
    /\ backendLog' = <<>>
    /\ listing' = NoListing
    /\ batch' = NoBatch
    /\ UNCHANGED <<connVars, fsVars, frameVars, settled, answer>>

\* connect(config) up to its await: the constructor may throw (this.client is
\* untouched and the call fails); otherwise the new client is stored and the
\* probe listBuckets() is issued on it.  Other calls may start and run while
\* the probe is awaited.
connect(cfg, ctorOk) ==
    /\ pc # "crashed"
    /\ connPc = "idle"
    /\ IF ~ctorOk
       THEN /\ connPc' = "done"
            /\ connResult' = Fail(Err("ConnectionFailure"))
            /\ UNCHANGED <<client, connCfg>>
       ELSE /\ client' = cfg
            /\ connCfg' = cfg
            /\ connPc' = "probe"
            /\ UNCHANGED connResult
    /\ UNCHANGED <<config, everConnected, pc, op, result, backendLog, fsVars, frameVars,
                   settled, answer, batch, listing>>

\* The probe settles: only a successful probe stores the config.
probeSettled(probeOk) ==
    /\ pc # "crashed"
    /\ connPc = "probe"
    /\ connPc' = "done"
    /\ connCfg' = Null
    /\ IF probeOk
       THEN /\ config' = connCfg
            /\ everConnected' = TRUE
            /\ connResult' = Ok(NoValue)
       ELSE /\ UNCHANGED <<config, everConnected>>
            /\ connResult' = Fail(Err("ConnectionFailure"))
    /\ UNCHANGED <<client, pc, op, result, backendLog, fsVars, frameVars,
                   settled, answer, batch, listing>>

\* The caller of connect has read its outcome; the next connect may start.
connectReturn ==
    /\ pc # "crashed"
    /\ connPc = "done"
    /\ connPc' = "idle"
    /\ connResult' = Pending
    /\ UNCHANGED <<client, config, everConnected, connCfg, pc, op, result, backendLog,
                   fsVars, frameVars, settled, answer, batch, listing>>

\* The shape shared by the methods that check the connection and then await
\* one SDK call on this.client: the call is issued and the method waits.
Delegate(name, call, args) ==
    /\ pc = "idle"
    /\ \/ RejectNotConnected(name)
       \/ /\ ensureConnected
          /\ op' = name
          /\ pc' = "await"
          /\ backendLog' = <<[call |-> call, via |-> client, args |-> args]>>
          /\ UNCHANGED <<connVars, result, fsVars, frameVars, settled, answer, batch, listing>>

\* The awaited SDK call settles: its answer or its error is passed through.
sdkSettled(ok) ==
    /\ pc = "await"
    /\ pc' = "done"
    /\ answer' = SdkAnswer(ok)
    /\ result' = IF ok THEN Ok([kind |-> backendLog[1].call]) ELSE Fail(Err("BackendError"))
    /\ UNCHANGED <<connVars, op, backendLog, fsVars, frameVars, settled, batch, listing>>

listBuckets == Delegate("listBuckets", "listBuckets", <<>>)

\* region || this.config.region || 'us-east-1': the stored config names the region.
createBucket ==
    \E region \in {"", "eu-west-1"} :
        Delegate("createBucket", "makeBucket",
                 <<"b", IF region # "" THEN region ELSE config>>)

deleteBucket == Delegate("deleteBucket", "removeBucket", <<"b">>)

bucketExists == Delegate("bucketExists", "bucketExists", <<"b">>)

\* listObjects(bucketName, prefix, recursive): the listing stream is opened and
\* the promise waits for its events.
listObjects ==
    \E recursive \in {"recursive", "flat"} :
        /\ pc = "idle"
        /\ \/ RejectNotConnected("listObjects")
           \/ /\ ensureConnected
              /\ op' = "listObjects"
              /\ pc' = "list"
              /\ backendLog' = <<[call |-> "listObjects", via |-> client,
                                  args |-> <<"b", recursive>>]>>
              /\ UNCHANGED <<connVars, result, fsVars, frameVars, settled, answer,
                             batch, listing>>

\* What the stream does: "end" after entries that all carry a name, "error", or
\* (in a listing that is not recursive) a common-prefix entry, which has no name.
StreamEvents == {"end", "error", "prefixEntry"}

\* The stream's events reach the listeners: 'end' resolves, 'error' rejects; on
\* an entry without a name obj.name.endsWith throws inside the 'data' listener,
\* which nothing catches: the promise never settles and the process dies.
listObjectsStream(event) ==
    /\ pc = "list"
    /\ event = "prefixEntry" => backendLog[1].args[2] = "flat"
    /\ IF event = "prefixEntry"
       THEN /\ pc' = "crashed"
            /\ UNCHANGED <<result, answer>>
       ELSE /\ pc' = "done"
            /\ answer' = SdkAnswer(event = "end")
            /\ result' = IF event = "end" THEN Ok([kind |-> "listObjects"])
                         ELSE Fail(Err("BackendError"))
    /\ UNCHANGED <<connVars, op, backendLog, fsVars, frameVars, settled, batch, listing>>

uploadStream == Delegate("uploadStream", "putObject", <<"b", "o">>)

getObjectStream == Delegate("getObjectStream", "getObject", <<"b", "o">>)

deleteObject == Delegate("deleteObject", "removeObject", <<"b", "o">>)

copyObject == Delegate("copyObject", "copyObject", <<"b2", "o2", "/b/o">>)

getObjectInfo == Delegate("getObjectInfo", "statObject", <<"b", "o">>)

setBucketPolicy == Delegate("setBucketPolicy", "setBucketPolicy", <<"b", "{}">>)

getBucketPolicy == Delegate("getBucketPolicy", "getBucketPolicy", <<"b">>)

\* Deleting a policy is setting the empty policy.
deleteBucketPolicy == Delegate("deleteBucketPolicy", "setBucketPolicy", <<"b", "">>)

PresignMethods == {"GET", "PUT", "DELETE", "PATCH"}

PresignCall(method) ==
    CASE method = "GET"    -> "presignedGetObject"
      [] method = "PUT"    -> "presignedPutObject"
      [] method = "DELETE" -> "presignedUrl"
      [] OTHER             -> "none"

\* generatePresignedUrl: a method outside GET/PUT/DELETE throws before any SDK
\* call; the others await the presign call of the SDK.
generatePresignedUrl ==
    \E method \in PresignMethods :
        IF ensureConnected /\ PresignCall(method) = "none"
        THEN /\ pc = "idle"
             /\ op' = "generatePresignedUrl"
             /\ pc' = "done"
             /\ backendLog' = <<>>
             /\ result' = Fail(Err("UnsupportedMethod"))
             /\ listing' = NoListing
             /\ batch' = NoBatch
             /\ UNCHANGED <<connVars, fsVars, frameVars, settled, answer>>
        ELSE Delegate("generatePresignedUrl", PresignCall(method), <<"b", "o">>)

\* ------------------------------------------------------------ bulk delete
ObjectNames == {"x", "y"}

\* All sequences over S of length at most n.
SeqsUpTo(S, n) == UNION {[1..k -> S] : k \in 0..n}

\* Array.prototype.join(sep)
RECURSIVE Join(_, _)
Join(names, sep) ==
    IF Len(names) = 0 THEN ""
    ELSE IF Len(names) = 1 THEN names[1]
    ELSE names[1] \o sep \o Join(Tail(names), sep)

\* deleteObjects(bucketName, objectNames) up to its await: the empty result and
\* one removeObjects call over the whole list.
deleteObjects(objectNames) ==
    /\ pc = "idle"
    /\ \/ RejectNotConnected("deleteObjects")
       \/ /\ ensureConnected
          /\ op' = "deleteObjects"
          /\ pc' = "remove"
          /\ backendLog' = <<[call |-> "removeObjects", via |-> client, args |-> objectNames]>>
          /\ batch' = [NoBatch EXCEPT !.kind = "deleteObjects", !.files = objectNames]
          /\ UNCHANGED <<connVars, result, fsVars, frameVars, settled, answer, listing>>

\* Mutant: a failed bulk call is counted as one failure.
removeObjectsSettled_OneFailure(ok) ==
    /\ pc = "remove"
    /\ pc' = "done"
    /\ answer' = SdkAnswer(ok)
    /\ result' =
         IF ok
         THEN Ok([success |-> TRUE, successCount |-> Len(batch.files),
                  failureCount |-> 0, errors |-> <<>>])
         ELSE Ok([success |-> FALSE, successCount |-> 0,
                  failureCount |-> 1,
                  errors |-> <<[item |-> Join(batch.files, ", "),
                                error |-> Err("BackendError")]>>])
    /\ UNCHANGED <<connVars, op, backendLog, fsVars, frameVars, settled, batch, listing>>

\* removeObjects settles: every name succeeded, or the catch block records one
\* error entry and objectNames.length failures; the result is returned.
removeObjectsSettled(ok) ==
    /\ pc = "remove"
    /\ pc' = "done"
    /\ answer' = SdkAnswer(ok)
    /\ result' =
         IF ok
         THEN Ok([success |-> TRUE, successCount |-> Len(batch.files),
                  failureCount |-> 0, errors |-> <<>>])
         ELSE Ok([success |-> FALSE, successCount |-> 0,
                  failureCount |-> Len(batch.files),
                  errors |-> <<[item |-> Join(batch.files, ", "),
                                error |-> Err("BackendError")]>>])
    /\ UNCHANGED <<connVars, op, backendLog, fsVars, frameVars, settled, batch, listing>>

\* ------------------------------------------------------------------ stats
\* What the backend answers to one getStorageStats call: per bucket (in listing
\* order) the sizes of its recursive object listing, and which of the SDK calls
\* throws (0: none, 1: listBuckets, 1 + i: listObjects of bucket i).
Listings(nb, no) ==
    {[buckets |-> bs, failAt |-> f] :
        bs \in SeqsUpTo(SeqsUpTo(Sizes, no), nb), f \in 0..(nb + 1)}

BucketName(i) == <<"bucket", i>>

\* objects.reduce((sum, obj) => sum + obj.size, 0)
RECURSIVE Reduce(_, _)
Reduce(objects, sum) ==
    IF objects = <<>> THEN sum ELSE Reduce(Tail(objects), sum + Head(objects))

\* Mutant: totalSize is assigned, not accumulated.
RECURSIVE StatsLoop_AssignsTotalSize(_, _, _)
StatsLoop_AssignsTotalSize(buckets, i, acc) ==
    IF i > Len(buckets) THEN acc
    ELSE LET objects     == buckets[i]
             bucketSize  == Reduce(objects, 0)
             objectCount == Len(objects)
         IN  StatsLoop_AssignsTotalSize(buckets, i + 1,
                 [bucketStats  |-> Append(acc.bucketStats,
                                          [bucketName  |-> BucketName(i),
                                           objectCount |-> objectCount,
                                           totalSize   |-> bucketSize]),
                  totalObjects |-> acc.totalObjects + objectCount,
                  totalSize    |-> bucketSize])

\* The for-of loop of getStorageStats from bucket i on, acc being the locals
\* bucketStats, totalObjects and totalSize.
RECURSIVE StatsLoop(_, _, _)
StatsLoop(buckets, i, acc) ==
    IF i > Len(buckets) THEN acc
    ELSE LET objects     == buckets[i]
             bucketSize  == Reduce(objects, 0)
             objectCount == Len(objects)
         IN  StatsLoop(buckets, i + 1,
                 [bucketStats  |-> Append(acc.bucketStats,
                                          [bucketName  |-> BucketName(i),
                                           objectCount |-> objectCount,
                                           totalSize   |-> bucketSize]),
                  totalObjects |-> acc.totalObjects + objectCount,
                  totalSize    |-> acc.totalSize + bucketSize])

\* getStorageStats up to its first await: this.listBuckets() is issued.  lst is
\* what the backend is going to answer to the calls of this invocation.
getStorageStats(lst) ==
    /\ pc = "idle"
    /\ \/ RejectNotConnected("getStorageStats")
       \/ /\ ensureConnected
          /\ op' = "getStorageStats"
          /\ pc' = "stats"
          /\ listing' = lst
          /\ backendLog' = <<[call |-> "listBuckets", via |-> client, args |-> <<>>]>>
          /\ UNCHANGED <<connVars, result, fsVars, frameVars, settled, answer, batch>>

\* The call getStorageStats awaits settles (the k-th it issued): a throw fails
\* the method; after listBuckets or a bucket's listing the loop goes on to
\* this.listObjects(bucket.name, undefined, true) of the next bucket, which
\* checks the connection again; after the last bucket the totals are returned.
statsSettled ==
    /\ pc = "stats"
    /\ LET k == Len(backendLog)
           n == Len(listing.buckets)
       IN  /\ answer' = SdkAnswer(listing.failAt # k)
           /\ IF listing.failAt = k
              THEN /\ pc' = "done"
                   /\ result' = Fail(Err("BackendError"))
                   /\ UNCHANGED backendLog
              ELSE IF k = n + 1
              THEN /\ pc' = "done"
                   /\ result' =
                        LET acc == StatsLoop(listing.buckets, 1,
                                       [bucketStats |-> <<>>, totalObjects |-> 0, totalSize |-> 0])
                        IN  Ok([totalBuckets |-> n,
                                totalObjects |-> acc.totalObjects,
                                totalSize    |-> acc.totalSize,
                                bucketStats  |-> acc.bucketStats])
                   /\ UNCHANGED backendLog
              ELSE IF ~ensureConnected
              THEN /\ pc' = "done"
                   /\ result' = Fail(NotConnected)
                   /\ UNCHANGED backendLog
              ELSE /\ pc' = "stats"
                   /\ backendLog' = Append(backendLog,
                          [call |-> "listObjects", via |-> client, args |-> <<"recursive">>])
                   /\ UNCHANGED result
    /\ UNCHANGED <<connVars, op, fsVars, frameVars, settled, batch, listing>>

\* ------------------------------------------------------------ file system
\* fs.existsSync(path)
existsSync(path) == path \in disk

\* path.join(tmpdir(), `minio_mcp_temp_${randomBytes(16).toString('hex')}`): the
\* n-th name drawn; names drawn at different times differ.
RECURSIVE TempName(_)
TempName(n) == IF n = 0 THEN "/tmp/minio_mcp_temp_" ELSE TempName(n - 1) \o "r"

\* new URL(urlString).protocol; "invalid" stands for the constructor throwing.
UrlProtocol(urlString) ==
    CASE urlString = "https://host/f" -> "https:"
      [] urlString = "http://host/f"  -> "http:"
      [] urlString = "ftp://host/f"   -> "ftp:"
      [] OTHER                        -> "invalid"

\* private isValidUrl(urlString)
isValidUrl(urlString) ==
    LET protocol == UrlProtocol(urlString)
    IN  protocol = "http:" \/ protocol = "https:"

\* path.dirname(filePath) on the destination paths used here.
Dirname(filePath) ==
    CASE filePath = "/tmp/x" -> "/tmp"
      [] filePath = "/out/y" -> "/out"
      [] OTHER               -> "/"

\* if (fs.existsSync(p)) fs.unlinkSync(p), inside try/catch: the disk afterwards.
UnlinkIfExists(p, unlinkOk) == IF existsSync(p) /\ unlinkOk THEN disk \ {p} ELSE disk

\* ------------------------------------------------------- batch bookkeeping
EmptyBatchResult == [success |-> TRUE, successCount |-> 0, failureCount |-> 0, errors |-> <<>>]

\* The item identifier a batch records: file.localPath for uploadFiles,
\* file.objectName for downloadFiles.
ItemId(b) ==
    IF b.kind = "uploadFiles" THEN b.files[b.idx].localPath ELSE b.files[b.idx].objectName

\* Mutant: the catch block does not count the failure.
RecordItem_FailureNotCounted(r, item, outcome) ==
    IF outcome.ok
    THEN [r EXCEPT !.successCount = @ + 1]
    ELSE [r EXCEPT !.success = FALSE,
                   !.errors = Append(@, [item |-> item, error |-> outcome.error])]

\* The try/catch around one item: result.successCount++ or the catch block.
RecordItem(r, item, outcome) ==
    IF outcome.ok
    THEN [r EXCEPT !.successCount = @ + 1]
    ELSE [r EXCEPT !.success = FALSE,
                   !.failureCount = @ + 1,
                   !.errors = Append(@, [item |-> item, error |-> outcome.error])]

\* uploadFile / downloadFile settles with outcome: a direct call reports it to
\* its caller; inside a batch (frame b) the loop records it and goes on.
Settle(b, outcome) ==
    /\ settled' = outcome
    /\ IF b.kind = "none"
       THEN /\ pc' = "done"
            /\ result' = outcome
            /\ batch' = b
       ELSE /\ pc' = "loop"
            /\ result' = result
            /\ batch' = [b EXCEPT !.result = RecordItem(@, ItemId(b), outcome),
                                  !.idx = @ + 1,
                                  !.outcomes = Append(@, outcome.ok)]

PutEntry(objectName) == [call |-> "putObject", via |-> client, args |-> <<"b", objectName>>]

\* The objectName argument of the uploadFile call in progress.
CurrentObjectName == IF batch.kind = "none" THEN "k" ELSE batch.files[batch.idx].objectName

\* --------------------------------------------------------------- uploadFile
\* Mutant: a local source is handed to putObject without the existence check.
uploadFileBegin_NoExistsCheck(b, objectName, filePath) ==
    /\ tempFilePath' = Null
    /\ cleanupError' = FALSE
    /\ putCount' = IF ensureConnected /\ ~isValidUrl(filePath) THEN 1 ELSE 0
    /\ resolvedOk' = (ensureConnected /\ ~isValidUrl(filePath) /\ existsSync(filePath))
    /\ answer' = NoAnswer
    /\ IF ~ensureConnected
       THEN /\ Settle(b, Fail(NotConnected))
            /\ tempFileName' = Null
            /\ UNCHANGED <<backendLog, fsVars>>
       ELSE IF isValidUrl(filePath)
       THEN /\ nextTemp < MaxFetches
            /\ nextTemp' = nextTemp + 1
            /\ tempFileName' = TempName(nextTemp + 1)
            /\ openPending' = openPending \cup {TempName(nextTemp + 1)}
            /\ pc' = "fetch"
            /\ batch' = b
            /\ settled' = Pending
            /\ UNCHANGED <<result, backendLog, disk, lingering, dirs>>
       ELSE /\ tempFileName' = Null
            /\ backendLog' = Append(backendLog, PutEntry(objectName))
            /\ pc' = "put"
            /\ batch' = b
            /\ settled' = Pending
            /\ UNCHANGED <<result, fsVars>>

\* uploadFile up to its first await, called directly or by the uploadFiles loop
\* (frame b).  A URL source starts downloadFromUrlToTempFile: a fresh temp name,
\* createWriteStream (its open completes later) and the GET request.  A local
\* source is checked for existence and handed to putObject.
uploadFileBegin(b, objectName, filePath) ==
    /\ tempFilePath' = Null
    /\ cleanupError' = FALSE
    /\ putCount' = IF ensureConnected /\ ~isValidUrl(filePath) /\ existsSync(filePath)
                   THEN 1 ELSE 0
    /\ resolvedOk' = (ensureConnected /\ ~isValidUrl(filePath) /\ existsSync(filePath))
    /\ answer' = NoAnswer
    /\ IF ~ensureConnected
       THEN /\ Settle(b, Fail(NotConnected))
            /\ tempFileName' = Null
            /\ UNCHANGED <<backendLog, fsVars>>
       ELSE IF isValidUrl(filePath)
       THEN /\ nextTemp < MaxFetches
            /\ nextTemp' = nextTemp + 1
            /\ tempFileName' = TempName(nextTemp + 1)
            /\ openPending' = openPending \cup {TempName(nextTemp + 1)}
            /\ pc' = "fetch"
            /\ batch' = b
            /\ settled' = Pending
            /\ UNCHANGED <<result, backendLog, disk, lingering, dirs>>
       ELSE IF ~existsSync(filePath)
       THEN /\ Settle(b, Fail(Err("NotFound")))
            /\ tempFileName' = Null
            /\ UNCHANGED <<backendLog, fsVars>>
       ELSE /\ tempFileName' = Null
            /\ backendLog' = Append(backendLog, PutEntry(objectName))
            /\ pc' = "put"
            /\ batch' = b
            /\ settled' = Pending
            /\ UNCHANGED <<result, fsVars>>

uploadFile(objectName, filePath) ==
    /\ pc = "idle"
    /\ \/ RejectNotConnected("uploadFile")
       \/ /\ ensureConnected
          /\ op' = "uploadFile"
          /\ uploadFileBegin(NoBatch, objectName, filePath)
          /\ UNCHANGED <<connVars, listing>>

\* The open started by createWriteStream(tempFileName) completes: the file is
\* created (empty), whatever has become of the request meanwhile.
fsOpen(t) ==
    /\ pc # "crashed"
    /\ t \in openPending
    /\ openPending' = openPending \ {t}
    /\ disk' = disk \cup {t}
    /\ UNCHANGED <<connVars, pc, op, result, backendLog, lingering, nextTemp, dirs,
                   frameVars, settled, answer, batch, listing>>

\* The response callback of client.get.  A status other than 200 rejects and
\* returns: the write stream stays open, the response is never consumed and the
\* request stays alive.  uploadFile's finally sees tempFilePath = null.
onResponse(statusCode) ==
    /\ pc = "fetch"
    /\ answer' = HttpAnswer(statusCode)
    /\ IF statusCode # 200
       THEN /\ lingering' = lingering \cup {tempFileName}
            /\ Settle(batch, Fail(DownloadFailed(statusCode)))
       ELSE /\ pc' = "pipe"
            /\ UNCHANGED <<lingering, result, batch, settled>>
    /\ UNCHANGED <<connVars, op, backendLog, disk, openPending, nextTemp, dirs,
                   frameVars, listing>>

\* request.on('error'): remove the temp file if it exists, then reject.
onRequestError(unlinkOk) ==
    /\ pc \in {"fetch", "pipe"}
    /\ disk' = UnlinkIfExists(tempFileName, unlinkOk)
    /\ Settle(batch, Fail(Err("TransportError")))
    /\ UNCHANGED <<connVars, op, backendLog, openPending, lingering, nextTemp, dirs,
                   frameVars, answer, listing>>

\* request.setTimeout(30000, ...): destroy the request, remove the temp file if
\* it exists, reject.
onTimeout(unlinkOk) ==
    /\ pc \in {"fetch", "pipe"}
    /\ disk' = UnlinkIfExists(tempFileName, unlinkOk)
    /\ Settle(batch, Fail(Err("Timeout")))
    /\ UNCHANGED <<connVars, op, backendLog, openPending, lingering, nextTemp, dirs,
                   frameVars, answer, listing>>

\* The timeout listener firing for a request that was already rejected on a bad
\* status: the reject is a no-op, the removal is not.
lateTimeout(t, unlinkOk) ==
    /\ pc # "crashed"
    /\ t \in lingering
    /\ lingering' = lingering \ {t}
    /\ disk' = UnlinkIfExists(t, unlinkOk)
    /\ UNCHANGED <<connVars, pc, op, result, backendLog, openPending, nextTemp, dirs,
                   frameVars, settled, answer, batch, listing>>

\* pipeline(response, fileStream) rejects (the body or the write failed without
\* a request 'error'): .catch(reject), nothing is removed.
pipelineRejected ==
    /\ pc = "pipe"
    /\ Settle(batch, Fail(Err("StreamError")))
    /\ UNCHANGED <<connVars, op, backendLog, fsVars, frameVars, answer, listing>>

\* Something other than this client removes the temp file while the call runs
\* (the case both existsSync checks of uploadFile exist for).
tempFileRemoved ==
    /\ pc \in {"pipe", "put"}
    /\ tempFileName \in disk
    /\ disk' = disk \ {tempFileName}
    /\ UNCHANGED <<connVars, pc, op, result, backendLog, openPending, lingering, nextTemp,
                   dirs, frameVars, settled, answer, batch, listing>>

\* pipeline resolves: uploadFile resumes with tempFilePath set, checks that the
\* file exists and calls putObject; if it does not exist the finally block finds
\* nothing to remove.
pipelineResolved ==
    /\ pc = "pipe"
    /\ tempFileName \notin openPending
    /\ tempFilePath' = tempFileName
    /\ resolvedOk' = existsSync(tempFileName)
    /\ IF existsSync(tempFileName)
       THEN /\ putCount' = putCount + 1
            /\ backendLog' = Append(backendLog, PutEntry(CurrentObjectName))
            /\ pc' = "put"
            /\ UNCHANGED <<result, batch, settled>>
       ELSE /\ Settle(batch, Fail(Err("NotFound")))
            /\ UNCHANGED <<putCount, backendLog>>
    /\ UNCHANGED <<connVars, op, fsVars, tempFileName, cleanupError, answer, listing>>

\* Mutant: the temp file is removed only after a successful put.
putSettled_CleanupOnlyOnSuccess(ok, unlinkOk) ==
    /\ pc = "put"
    /\ answer' = SdkAnswer(ok)
    /\ IF ok /\ tempFilePath # Null /\ existsSync(tempFilePath)
       THEN /\ disk' = UnlinkIfExists(tempFilePath, unlinkOk)
            /\ cleanupError' = ~unlinkOk
       ELSE UNCHANGED <<disk, cleanupError>>
    /\ Settle(batch, IF ok THEN Ok(NoValue) ELSE Fail(Err("BackendError")))
    /\ UNCHANGED <<connVars, op, backendLog, openPending, lingering, nextTemp, dirs,
                   tempFileName, tempFilePath, putCount, resolvedOk, listing>>

\* putObject settles and the finally block runs: a temp file that still exists
\* is unlinked; a failing unlink is logged and the outcome stands.
putSettled(ok, unlinkOk) ==
    /\ pc = "put"
    /\ answer' = SdkAnswer(ok)
    /\ IF tempFilePath # Null /\ existsSync(tempFilePath)
       THEN /\ disk' = UnlinkIfExists(tempFilePath, unlinkOk)
            /\ cleanupError' = ~unlinkOk
       ELSE UNCHANGED <<disk, cleanupError>>
    /\ Settle(batch, IF ok THEN Ok(NoValue) ELSE Fail(Err("BackendError")))
    /\ UNCHANGED <<connVars, op, backendLog, openPending, lingering, nextTemp, dirs,
                   tempFileName, tempFilePath, putCount, resolvedOk, listing>>

\* ------------------------------------------------------------- downloadFile
FGetEntry(objectName, filePath) ==
    [call |-> "fGetObject", via |-> client, args |-> <<"b", objectName, filePath>>]

\* downloadFile up to its await: the destination's directory is created when it
\* is missing (mkdirSync may throw), then fGetObject is called.
downloadFileBegin(b, objectName, filePath, mkdirOk) ==
    LET dir == Dirname(filePath) IN
    /\ answer' = NoAnswer
    /\ IF ~ensureConnected
       THEN /\ Settle(b, Fail(NotConnected))
            /\ UNCHANGED <<backendLog, fsVars>>
       ELSE IF ~(dir \in dirs) /\ ~mkdirOk
       THEN /\ Settle(b, Fail(Err("MkdirError")))
            /\ UNCHANGED <<backendLog, fsVars>>
       ELSE /\ dirs' = dirs \cup {dir}
            /\ backendLog' = Append(backendLog, FGetEntry(objectName, filePath))
            /\ pc' = "get"
            /\ batch' = b
            /\ settled' = Pending
            /\ UNCHANGED <<result, disk, openPending, lingering, nextTemp>>

DownloadItems == {[objectName |-> "x", localPath |-> "/tmp/x"],
                  [objectName |-> "y", localPath |-> "/out/y"]}

downloadFile(objectName, filePath, mkdirOk) ==
    /\ pc = "idle"
    /\ \/ RejectNotConnected("downloadFile")
       \/ /\ ensureConnected
          /\ op' = "downloadFile"
          /\ downloadFileBegin(NoBatch, objectName, filePath, mkdirOk)
          /\ UNCHANGED <<connVars, frameVars, listing>>

\* fGetObject settles.
fGetSettled(ok) ==
    /\ pc = "get"
    /\ answer' = SdkAnswer(ok)
    /\ Settle(batch, IF ok THEN Ok(NoValue) ELSE Fail(Err("BackendError")))
    /\ UNCHANGED <<connVars, op, backendLog, fsVars, frameVars, listing>>

\* ------------------------------------------------------------------ batches
UploadItems == {[localPath |-> LocalExisting,    objectName |-> "k1"],
                [localPath |-> LocalMissing,     objectName |-> "k2"],
                [localPath |-> "https://host/f", objectName |-> "k3"]}

\* Number of files whose source will be fetched.
RECURSIVE UrlCount(_)
UrlCount(files) ==
    IF files = <<>> THEN 0
    ELSE (IF isValidUrl(Head(files).localPath) THEN 1 ELSE 0) + UrlCount(Tail(files))

\* uploadFiles / downloadFiles up to the loop: the connection check and the
\* empty result.
BatchBegin(name, files) ==
    /\ pc = "idle"
    /\ \/ RejectNotConnected(name)
       \/ /\ ensureConnected
          /\ op' = name
          /\ pc' = "loop"
          /\ batch' = [kind |-> name, files |-> files, idx |-> 1,
                       result |-> EmptyBatchResult, invoked |-> <<>>, outcomes |-> <<>>]
          /\ backendLog' = <<>>
          /\ UNCHANGED <<connVars, result, fsVars, frameVars, settled, answer, listing>>

uploadFiles(files) ==
    /\ UrlCount(files) + nextTemp <= MaxFetches
    /\ BatchBegin("uploadFiles", files)

downloadFiles(files) == BatchBegin("downloadFiles", files)

\* The frame once the loop has called the transfer operation on item b.idx.
LoopNext(b) == [b EXCEPT !.invoked = Append(@, b.idx)]

\* Mutant: the loop stops at the first failed item.
uploadFilesLoop_AbortOnFailure ==
    /\ pc = "loop"
    /\ batch.kind = "uploadFiles"
    /\ IF batch.idx > Len(batch.files) \/ batch.result.failureCount > 0
       THEN /\ pc' = "done"
            /\ result' = Ok(batch.result)
            /\ UNCHANGED <<batch, backendLog, fsVars, frameVars, settled, answer>>
       ELSE LET file == batch.files[batch.idx]
            IN  uploadFileBegin(LoopNext(batch), file.objectName, file.localPath)
    /\ UNCHANGED <<connVars, op, listing>>

\* The head of uploadFiles' for-of loop: return the result after the last
\* item, else call uploadFile on the next one.
uploadFilesLoop ==
    /\ pc = "loop"
    /\ batch.kind = "uploadFiles"
    /\ IF batch.idx > Len(batch.files)
       THEN /\ pc' = "done"
            /\ result' = Ok(batch.result)
            /\ UNCHANGED <<batch, backendLog, fsVars, frameVars, settled, answer>>
       ELSE LET file == batch.files[batch.idx]
            IN  uploadFileBegin(LoopNext(batch), file.objectName, file.localPath)
    /\ UNCHANGED <<connVars, op, listing>>

\* The head of downloadFiles' for-of loop.
downloadFilesLoop(mkdirOk) ==
    /\ pc = "loop"
    /\ batch.kind = "downloadFiles"
    /\ IF batch.idx > Len(batch.files)
       THEN /\ pc' = "done"
            /\ result' = Ok(batch.result)
            /\ UNCHANGED <<batch, backendLog, fsVars, settled, answer>>
       ELSE LET file == batch.files[batch.idx]
            IN  downloadFileBegin(LoopNext(batch), file.objectName, file.localPath, mkdirOk)
    /\ UNCHANGED <<connVars, op, frameVars, listing>>

\* The caller has read the outcome; the next public call may start.
Return ==
    /\ pc = "done"
    /\ pc' = "idle"
    /\ op' = "none"
    /\ result' = Pending
    /\ backendLog' = <<>>
    /\ batch' = NoBatch
    /\ listing' = NoListing
    /\ tempFileName' = Null
    /\ tempFilePath' = Null
    /\ putCount' = 0
    /\ resolvedOk' = FALSE
    /\ cleanupError' = FALSE
    /\ settled' = Pending
    /\ answer' = NoAnswer
    /\ UNCHANGED <<connVars, fsVars>>

\* The state after construction: both fields null.
Init ==
    /\ client = Null
    /\ config = Null
    /\ pc = "idle"
    /\ op = "none"
    /\ result = Pending
    /\ backendLog = <<>>
    /\ disk = LocalFiles
    /\ openPending = {}
    /\ lingering = {}
    /\ nextTemp = 0
    /\ dirs = {"/tmp"}
    /\ tempFileName = Null
    /\ tempFilePath = Null
    /\ putCount = 0
    /\ resolvedOk = FALSE
    /\ cleanupError = FALSE
    /\ settled = Pending
    /\ answer = NoAnswer
    /\ everConnected = FALSE
    /\ connPc = "idle"
    /\ connCfg = Null
    /\ connResult = Pending
    /\ batch = NoBatch
    /\ listing = NoListing

\* The steps of the calls in progress and of the environment.
Steps ==
    \/ \E t \in openPending : fsOpen(t)
    \/ \E statusCode \in HttpStatuses : onResponse(statusCode)
    \/ \E unlinkOk \in BOOLEAN : onRequestError(unlinkOk)
    \/ \E unlinkOk \in BOOLEAN : onTimeout(unlinkOk)
    \/ \E t \in lingering, unlinkOk \in BOOLEAN : lateTimeout(t, unlinkOk)
    \/ pipelineRejected
    \/ tempFileRemoved
    \/ pipelineResolved
    \/ \E ok \in BOOLEAN, unlinkOk \in BOOLEAN : putSettled(ok, unlinkOk)
    \/ \E ok \in BOOLEAN : fGetSettled(ok)
    \/ \E ok \in BOOLEAN : removeObjectsSettled(ok)
    \/ uploadFilesLoop
    \/ \E mkdirOk \in BOOLEAN : downloadFilesLoop(mkdirOk)
    \/ Return

\* Every public method, from a fresh client, over either config, connect
\* running alongside the other calls; the batch
\* methods on lists of at most one item and getStorageStats on at most one
\* bucket with at most one object.
Next ==
    \/ \E cfg \in Configs, ctorOk \in BOOLEAN : connect(cfg, ctorOk)
    \/ \E probeOk \in BOOLEAN : probeSettled(probeOk)
    \/ connectReturn
    \/ listBuckets \/ createBucket \/ deleteBucket \/ bucketExists \/ listObjects
    \/ uploadStream \/ getObjectStream \/ deleteObject \/ copyObject \/ getObjectInfo
    \/ setBucketPolicy \/ getBucketPolicy \/ deleteBucketPolicy
    \/ generatePresignedUrl
    \/ \E ok \in BOOLEAN : sdkSettled(ok)
    \/ \E event \in StreamEvents : listObjectsStream(event)
    \/ \E names \in SeqsUpTo(ObjectNames, 1) : deleteObjects(names)
    \/ pc = "idle" /\ \E lst \in Listings(1, 1) : getStorageStats(lst)
    \/ statsSettled
    \/ \E filePath \in Sources : uploadFile("k", filePath)
    \/ \E item \in DownloadItems, mkdirOk \in BOOLEAN :
          downloadFile(item.objectName, item.localPath, mkdirOk)
    \/ \E files \in SeqsUpTo(UploadItems, 1) : uploadFiles(files)
    \/ \E files \in SeqsUpTo(DownloadItems, 1) : downloadFiles(files)
    \/ Steps

Spec == Init /\ [][Next]_vars

\* A client whose connect("cfgA") has succeeded and returned.
InitConnected ==
    /\ client = "cfgA"
    /\ config = "cfgA"
    /\ pc = "idle"
    /\ op = "none"
    /\ result = Pending
    /\ backendLog = <<>>
    /\ disk = LocalFiles
    /\ openPending = {}
    /\ lingering = {}
    /\ nextTemp = 0
    /\ dirs = {"/tmp"}
    /\ tempFileName = Null
    /\ tempFilePath = Null
    /\ putCount = 0
    /\ resolvedOk = FALSE
    /\ cleanupError = FALSE
    /\ settled = Pending
    /\ answer = NoAnswer
    /\ everConnected = TRUE
    /\ connPc = "idle"
    /\ connCfg = Null
    /\ connResult = Pending
    /\ batch = NoBatch
    /\ listing = NoListing

\* The transfer and batch methods over every input within the bounds, on a
\* connected client.
NextTransfer ==
    \/ \E names \in SeqsUpTo(ObjectNames, MaxItems) : deleteObjects(names)
    \/ \E filePath \in Sources : uploadFile("k", filePath)
    \/ \E item \in DownloadItems, mkdirOk \in BOOLEAN :
          downloadFile(item.objectName, item.localPath, mkdirOk)
    \/ \E files \in SeqsUpTo(UploadItems, MaxItems) : uploadFiles(files)
    \/ \E files \in SeqsUpTo(DownloadItems, MaxItems) : downloadFiles(files)
    \/ Steps

SpecTransfer == InitConnected /\ [][NextTransfer]_vars

\* getStorageStats over every listing within the bounds, on a connected client.
NextStats ==
    \/ pc = "idle" /\ \E lst \in Listings(MaxBuckets, MaxObjects) : getStorageStats(lst)
    \/ statsSettled
    \/ Return

SpecStats == InitConnected /\ [][NextStats]_vars

\* ================================================================== claims
BatchKinds == {"uploadFiles", "downloadFiles"}

\* An uploadFile call (direct or made by uploadFiles) has reported its outcome.
UploadSettled ==
    /\ op \in {"uploadFile", "uploadFiles"}
    /\ pc \in {"done", "loop"}
    /\ settled # Pending

\* The fetch of the settled uploadFile call was started and did not resolve.
FetchFailed == UploadSettled /\ tempFileName # Null /\ tempFilePath = Null

\* The fetch of the settled uploadFile call resolved.
FetchSucceeded == UploadSettled /\ tempFilePath # Null

CountOf(seq, v) == Cardinality({i \in DOMAIN seq : seq[i] = v})

\* C1: once a failed remote fetch has been reported to the caller of
\* uploadFile, the temp file created for that call does not exist on disk.
C1_FailedFetchLeavesNoTempFile == FetchFailed => ~existsSync(tempFileName)

\* C2 as stated: after an uploadFile whose fetch succeeded the temp file no
\* longer exists, and uploadFile reports the outcome of the upload step.
C2_TempFileGoneAfterUpload ==
    FetchSucceeded =>
        /\ ~existsSync(tempFilePath)
        /\ settled = IF putCount = 0 THEN Fail(Err("NotFound"))
                     ELSE IF answer.ok THEN Ok(NoValue) ELSE Fail(Err("BackendError"))

\* C2 amended: after an uploadFile whose fetch succeeded the temp file exists
\* only if the unlink of the finally block failed (which is logged), and in
\* every case uploadFile reports the outcome of the upload step: success, the
\* put's error, or not-found.
C2_TempFileGoneUnlessUnlinkFails ==
    FetchSucceeded =>
        /\ existsSync(tempFilePath) <=> cleanupError
        /\ settled = IF putCount = 0 THEN Fail(Err("NotFound"))
                     ELSE IF answer.ok THEN Ok(NoValue) ELSE Fail(Err("BackendError"))

\* The put failed, the temp file was removed, and the put's error is reported.
C2_Witness ==
    /\ FetchSucceeded
    /\ putCount = 1
    /\ settled = Fail(Err("BackendError"))
    /\ ~existsSync(tempFilePath)

\* C3: in every Batch Result returned by uploadFiles, downloadFiles or
\* deleteObjects, success is true if and only if failureCount is 0.
C3_SuccessIffNoFailures ==
    (pc = "done" /\ batch.kind \in BatchKinds \cup {"deleteObjects"}) =>
        (result.value.success <=> (result.value.failureCount = 0))

\* C4: uploadFiles and downloadFiles count every item once: successCount is the
\* number of transfers that succeeded, failureCount the number that threw, and
\* in the returned result they add up to the number of input items.
C4_CountsAddUp ==
    batch.kind \in BatchKinds =>
        /\ batch.result.successCount = CountOf(batch.outcomes, TRUE)
        /\ batch.result.failureCount = CountOf(batch.outcomes, FALSE)
        /\ pc = "done" =>
              /\ result = Ok(batch.result)
              /\ Len(batch.outcomes) = Len(batch.files)
              /\ result.value.successCount + result.value.failureCount = Len(batch.files)

\* A returned result with one success and one failure.
C4_Witness ==
    /\ pc = "done"
    /\ op = "uploadFiles"
    /\ result.ok
    /\ batch.result.successCount = 1
    /\ batch.result.failureCount = 1

\* C5: the batch loops call the transfer operation once per item, in input
\* order, one at a time (an item is started only when every earlier one has
\* settled), go on after a failure, and return rather than throw.
C5_SequentialInOrder ==
    batch.kind \in BatchKinds =>
        /\ batch.invoked = [i \in 1..Len(batch.invoked) |-> i]
        /\ Len(batch.invoked) = Len(batch.outcomes) + (IF pc \in {"loop", "done"} THEN 0 ELSE 1)
        /\ pc = "done" => (result.ok /\ Len(batch.invoked) = Len(batch.files))

\* The first item failed and the second was still transferred.
C5_Witness ==
    /\ pc = "done"
    /\ op = "uploadFiles"
    /\ batch.outcomes = <<FALSE, TRUE>>
    /\ batch.invoked = <<1, 2>>

\* C6: a connected deleteObjects makes exactly one removeObjects call over the
\* whole list and returns: all n names failed if the call threw, all n
\* succeeded with no error entry if it did not.
C6_BulkDeleteAllOrNothing ==
    (pc = "done" /\ batch.kind = "deleteObjects") =>
        LET n == Len(batch.files) IN
        /\ Len(backendLog) = 1
        /\ backendLog[1].call = "removeObjects"
        /\ backendLog[1].args = batch.files
        /\ result.ok
        /\ IF answer.ok
           THEN result.value = [success |-> TRUE, successCount |-> n,
                                failureCount |-> 0, errors |-> <<>>]
           ELSE /\ result.value.success = FALSE
                /\ result.value.successCount = 0
                /\ result.value.failureCount = n

\* The bulk call threw on a list of two names.
C6_Witness ==
    /\ pc = "done"
    /\ batch.kind = "deleteObjects"
    /\ Len(batch.files) = 2
    /\ ~answer.ok
    /\ result.value.failureCount = 2

\* C7: as long as no connect call has succeeded, every public call other than
\* connect has failed with the not-connected error, made no backend call, and
\* nothing on the file system has been created or changed.
C7_NotConnectedRejects ==
    ~everConnected =>
        /\ disk = LocalFiles /\ openPending = {} /\ nextTemp = 0 /\ dirs = {"/tmp"}
        /\ pc \in {"idle", "done"}
        /\ op # "none" =>
              /\ pc = "done"
              /\ result = Fail(NotConnected)
              /\ backendLog = <<>>

\* A batch call rejected while the probe of the second connect call is awaited,
\* the first one having failed at its probe.
C7_Witness ==
    /\ ~everConnected
    /\ client = "cfgB"
    /\ connPc = "probe"
    /\ pc = "done"
    /\ op = "uploadFiles"
    /\ result = Fail(NotConnected)

\* C8: getStorageStats returns the number of buckets listed, one entry per
\* bucket in listing order with the count and the sum of sizes of its listing,
\* and totals equal to the sums of the per-bucket figures.
RECURSIVE SumUpTo(_, _)
SumUpTo(f, n) == IF n = 0 THEN 0 ELSE f[n] + SumUpTo(f, n - 1)

C8_StatsAreSums ==
    (pc = "done" /\ op = "getStorageStats" /\ result # Fail(NotConnected)) =>
        LET bs == listing.buckets
            n  == Len(bs)
            v  == result.value
        IN  /\ result.ok <=> ~(listing.failAt \in 1..(n + 1))
            /\ result.ok =>
                  /\ Len(backendLog) = n + 1
                  /\ \A i \in 1..n : backendLog[i + 1].call = "listObjects"
                  /\ v.totalBuckets = n
                  /\ Len(v.bucketStats) = n
                  /\ \A i \in 1..n :
                        /\ v.bucketStats[i].bucketName = BucketName(i)
                        /\ v.bucketStats[i].objectCount = Len(bs[i])
                        /\ v.bucketStats[i].totalSize = SumUpTo(bs[i], Len(bs[i]))
                  /\ v.totalObjects = SumUpTo([i \in 1..n |-> v.bucketStats[i].objectCount], n)
                  /\ v.totalSize = SumUpTo([i \in 1..n |-> v.bucketStats[i].totalSize], n)
                  /\ n = 0 => v = [totalBuckets |-> 0, totalObjects |-> 0,
                                   totalSize |-> 0, bucketStats |-> <<>>]

\* Two buckets holding three objects of five bytes in all.
C8_Witness ==
    /\ pc = "done"
    /\ op = "getStorageStats"
    /\ result.ok
    /\ listing.buckets = <<<<1, 2>>, <<2>>>>
    /\ result.value.totalObjects = 3
    /\ result.value.totalSize = 5

\* C9: between connect calls (none is awaiting its probe), whenever operations
\* are permitted, the backend client they use was constructed from the config
\* that is currently stored.
C9_ClientBuiltFromStoredConfig ==
    (connPc # "probe" /\ ensureConnected) => client = config

\* C10: one uploadFile call invokes putObject at most once and only after
\* existsSync of the resolved path answered true; a failed fetch (a bad status
\* is reported with its number) or a missing path fails the call with no put.
C10_PutOnlyAfterResolved ==
    /\ putCount <= 1
    /\ putCount = 1 => resolvedOk
    /\ op = "uploadFile" => Len(backendLog) = putCount
    /\ FetchFailed =>
          /\ putCount = 0
          /\ ~settled.ok
          /\ (answer.kind = "http" /\ answer.status # 200) =>
                settled = Fail(DownloadFailed(answer.status))
    /\ (UploadSettled /\ ~FetchFailed /\ ~resolvedOk) =>
          /\ putCount = 0
          /\ settled = Fail(Err("NotFound"))

\* The fetch answered 404: the call failed with that status and made no put.
C10_Witness ==
    /\ FetchFailed
    /\ settled = Fail(DownloadFailed(404))
    /\ putCount = 0
    /\ backendLog = <<>>
====
